---- MODULE Spec2Model ----
(***************************************************************************)
(* A model of database_operations/smart_extractor.py (SmartContentExtractor): *)
(* the date/time normaliser, the field extractor with its cleaners, the     *)
(* confidence scorer, the document classifier, the theme and entity miner   *)
(* and the database field mapper.                                           *)
(*                                                                         *)
(* A Python str is a sequence of one-character strings, so that strip,      *)
(* upper, title, len, "in" (substring) and strptime are computed and not    *)
(* assumed.  A document is a sequence of lines; its text is the lines, each *)
(* followed by a newline.                                                   *)
(***************************************************************************)
EXTENDS Integers, Sequences, FiniteSets, TLC

VARIABLES
    text,             \* extract_structured_data: the document, a sequence of lines
    hashSeed,         \* the interpreter's string-hash salt (fixed per process)
    extracted,        \* the result of extract_structured_data, if called
    extracted2,       \* the result of a repeated call on the same text, if called
    clock,            \* datetime.now(), counted in calls
    document_type,    \* classify_document_type: the label returned, if called
    original_fields,  \* format_for_database: the record passed to the latest call
    extracted_data,   \* format_for_database: the extraction result passed in
    result,           \* format_for_database: the record returned, if called
    repeated,         \* the latest call passed the extraction of the call before
    calls,            \* number of format_for_database calls made on the record
    date_str,         \* parse_datetime: the argument
    parsed,           \* parse_datetime(date_str), if called
    reparsed          \* parse_datetime(parsed), if called

vars == <<text, hashSeed, extracted, extracted2, clock, document_type, original_fields,
          extracted_data, result, repeated, calls, date_str, parsed, reparsed>>

extractVars == <<text, hashSeed, extracted, extracted2, clock>>
dbVars == <<original_fields, extracted_data, result, repeated, calls>>
dateVars == <<date_str, parsed, reparsed>>

\* the exception strptime and datetime raise, as a value
ValueError == "ValueError"

\* a variable that holds a value or none holds <<v>> or <<>>
None == <<>>
Some(v) == <<v>>

\* F(x) with x evaluated once, as a local variable of the code is: x is bound
\* as the element of a one-element set
Let(x, F(_)) == CHOOSE r \in {F(v) : v \in {x}} : TRUE

----------------------------------------------------------------------------
(* Python str operations, on sequences of characters.                       *)

Digits == <<"0", "1", "2", "3", "4", "5", "6", "7", "8", "9">>

LowerLetters == <<"a", "b", "c", "d", "e", "f", "g", "h", "i", "j", "k", "l", "m",
                  "n", "o", "p", "q", "r", "s", "t", "u", "v", "w", "x", "y", "z">>

UpperLetters == <<"A", "B", "C", "D", "E", "F", "G", "H", "I", "J", "K", "L", "M",
                  "N", "O", "P", "Q", "R", "S", "T", "U", "V", "W", "X", "Y", "Z">>

WhiteSpace == {" ", "\t", "\n"}

Range(s) == {s[i] : i \in DOMAIN s}

DigitSet == Range(Digits)
LowerSet == Range(LowerLetters)
UpperSet == Range(UpperLetters)

IsDigit(c) == c \in DigitSet
IsLower(c) == c \in LowerSet
IsUpper(c) == c \in UpperSet
IsLetter(c) == IsLower(c) \/ IsUpper(c)

DigitValue == [c \in DigitSet |-> (CHOOSE i \in DOMAIN Digits : Digits[i] = c) - 1]
DigitVal(c) == DigitValue[c]

UpperOf == [c \in LowerSet |->
              UpperLetters[CHOOSE i \in DOMAIN LowerLetters : LowerLetters[i] = c]]
LowerOf == [c \in UpperSet |->
              LowerLetters[CHOOSE i \in DOMAIN UpperLetters : UpperLetters[i] = c]]

\* str.upper() and str.lower(), one character
ToUpper(c) == IF IsLower(c) THEN UpperOf[c] ELSE c
ToLower(c) == IF IsUpper(c) THEN LowerOf[c] ELSE c

Upper(s) == [i \in DOMAIN s |-> ToUpper(s[i])]
Lower(s) == [i \in DOMAIN s |-> ToLower(s[i])]

\* str.title(): a letter is upper-cased when the character before it is not a
\* letter, and lower-cased otherwise
Title(s) == [i \in DOMAIN s |->
               IF i > 1 /\ IsLetter(s[i - 1]) THEN ToLower(s[i]) ELSE ToUpper(s[i])]

\* str.strip()
Strip(s) ==
    LET keep == {i \in DOMAIN s : s[i] \notin WhiteSpace}
    IN IF keep = {} THEN <<>>
       ELSE LET lo == CHOOSE i \in keep : \A j \in keep : i <= j
                hi == CHOOSE i \in keep : \A j \in keep : j <= i
            IN SubSeq(s, lo, hi)

\* re.sub(r'\s+', '', s)
RemoveWhiteSpace(s) == SelectSeq(s, LAMBDA c : c \notin WhiteSpace)

\* Python's "sub in s"
Contains(sub, s) ==
    \E k \in 0..(Len(s) - Len(sub)) : \A i \in 1..Len(sub) : s[k + i] = sub[i]

RECURSIVE ConcatFrom(_, _)
ConcatFrom(ss, i) == IF i > Len(ss) THEN <<>> ELSE ss[i] \o ConcatFrom(ss, i + 1)

\* the concatenation of a sequence of sequences
Concat(ss) == Let(ss, LAMBDA v : ConcatFrom(v, 1))

\* sep.join(ss)
Join(sep, ss) ==
    Let(ss, LAMBDA v :
        Concat([i \in DOMAIN v |-> IF i = 1 THEN v[i] ELSE sep \o v[i]]))

----------------------------------------------------------------------------
(* parse_datetime: datetime.strptime over six formats, then strftime.       *)

\* the fields of s between occurrences of the character sep
RECURSIVE Split(_, _)
Split(s, sep) ==
    IF \A i \in DOMAIN s : s[i] # sep THEN <<s>>
    ELSE LET k == CHOOSE i \in DOMAIN s : s[i] = sep /\ \A j \in 1..(i - 1) : s[j] # sep
         IN <<SubSeq(s, 1, k - 1)>> \o Split(SubSeq(s, k + 1, Len(s)), sep)

RECURSIVE NumVal(_)
\* int() of a non-empty string of digits
NumVal(f) == IF Len(f) = 0 THEN 0
             ELSE 10 * NumVal(SubSeq(f, 1, Len(f) - 1)) + DigitVal(f[Len(f)])

AllDigits(f) == Len(f) > 0 /\ \A i \in DOMAIN f : IsDigit(f[i])

Invalid == -1

\* strptime's directives: the value of a field the directive matches whole,
\* or Invalid.  %Y is \d\d\d\d; %m is 1[0-2]|0[1-9]|[1-9]; %d is
\* 3[0-1]|[1-2]\d|0[1-9]|[1-9]| [1-9]; %H is 2[0-3]|[0-1]\d|\d; %M is
\* [0-5]\d|\d; %S is 6[0-1]|[0-5]\d|\d.
Number(f, lo, hi) ==
    IF AllDigits(f) /\ Len(f) <= 2 /\ NumVal(f) >= lo /\ NumVal(f) <= hi
    THEN NumVal(f) ELSE Invalid

DirectiveY(f) == IF AllDigits(f) /\ Len(f) = 4 THEN NumVal(f) ELSE Invalid
DirectiveM(f) == Number(f, 1, 12)
DirectiveD(f) == IF Len(f) = 2 /\ f[1] = " " /\ IsDigit(f[2]) /\ f[2] # "0"
                 THEN DigitVal(f[2]) ELSE Number(f, 1, 31)
DirectiveHour(f) == Number(f, 0, 23)
DirectiveMinute(f) == Number(f, 0, 59)
DirectiveSecond(f) == Number(f, 0, 61)

IsLeap(y) == (y % 4 = 0 /\ y % 100 # 0) \/ y % 400 = 0
DaysInMonth(y, m) == IF m = 2 THEN (IF IsLeap(y) THEN 29 ELSE 28)
                     ELSE IF m \in {4, 6, 9, 11} THEN 30 ELSE 31

\* datetime(y, m, d, H, M, S) raises ValueError outside these ranges
ValidDateTime(y, m, d, hh, mm, ss) ==
    /\ y >= 1 /\ m >= 1 /\ m <= 12 /\ d >= 1 /\ d <= DaysInMonth(y, m)
    /\ hh >= 0 /\ hh <= 23 /\ mm >= 0 /\ mm <= 59 /\ ss >= 0 /\ ss <= 59

NoDate == [ok |-> FALSE]

\* the date part of a format: three fields separated by sep, in the order
\* given by order (a permutation of "Y", "m", "d")
ParseDate(s, sep, order) ==
    LET f == Split(s, sep)
        at(k) == CHOOSE i \in 1..3 : order[i] = k
    IN IF Len(f) # 3 THEN NoDate
       ELSE LET y == DirectiveY(f[at("Y")])
                m == DirectiveM(f[at("m")])
                d == DirectiveD(f[at("d")])
            IN IF y = Invalid \/ m = Invalid \/ d = Invalid THEN NoDate
               ELSE [ok |-> TRUE, y |-> y, m |-> m, d |-> d]

\* the time part %H:%M:%S
ParseTime(s) ==
    LET f == Split(s, ":")
    IN IF Len(f) # 3 THEN NoDate
       ELSE LET hh == DirectiveHour(f[1])
                mm == DirectiveMinute(f[2])
                ss == DirectiveSecond(f[3])
            IN IF hh = Invalid \/ mm = Invalid \/ ss = Invalid THEN NoDate
               ELSE [ok |-> TRUE, hh |-> hh, mm |-> mm, ss |-> ss]

\* strftime: %m %d %H %M %S are two digits; %Y is the year in decimal (the C
\* library's strftime does not pad a year below 1000)
RECURSIVE Decimal(_)
Decimal(n) == IF n < 10 THEN <<Digits[n + 1]>>
              ELSE Decimal(n \div 10) \o <<Digits[(n % 10) + 1]>>

TwoDigits(n) == <<Digits[(n \div 10) + 1], Digits[(n % 10) + 1]>>

FormatDate(y, m, d) == Decimal(y) \o <<"-">> \o TwoDigits(m) \o <<"-">> \o TwoDigits(d)
FormatTime(hh, mm, ss) == TwoDigits(hh) \o <<":">> \o TwoDigits(mm) \o <<":">> \o TwoDigits(ss)

\* datetime.strptime(s, '%Y-%m-%d %H:%M:%S').strftime('%Y-%m-%d %H:%M:%S'), or
\* ValueError for ValueError.  The blank of the format is \s+ : s is a date, a
\* non-empty run of white space and a time.
StrptimeDateTime(s) ==
    LET cuts == {c \in (DOMAIN s) \X (DOMAIN s) :
                    /\ c[1] > 1 /\ c[1] < c[2]
                    /\ \A i \in c[1]..(c[2] - 1) : s[i] \in WhiteSpace
                    /\ ParseDate(SubSeq(s, 1, c[1] - 1), "-", <<"Y", "m", "d">>).ok
                    /\ ParseTime(SubSeq(s, c[2], Len(s))).ok}
    IN IF cuts = {} THEN ValueError
       ELSE LET c == CHOOSE x \in cuts : TRUE
                dt == ParseDate(SubSeq(s, 1, c[1] - 1), "-", <<"Y", "m", "d">>)
                tm == ParseTime(SubSeq(s, c[2], Len(s)))
            IN IF ValidDateTime(dt.y, dt.m, dt.d, tm.hh, tm.mm, tm.ss)
               THEN FormatDate(dt.y, dt.m, dt.d) \o <<" ">> \o FormatTime(tm.hh, tm.mm, tm.ss)
               ELSE ValueError

\* datetime.strptime(s, fmt).strftime('%Y-%m-%d') for a date-only format, or
\* ValueError for ValueError
StrptimeDate(s, sep, order) ==
    LET dt == ParseDate(s, sep, order)
    IN IF dt.ok /\ ValidDateTime(dt.y, dt.m, dt.d, 0, 0, 0)
       THEN FormatDate(dt.y, dt.m, dt.d) ELSE ValueError

\* the (input_pattern, output_pattern) list of parse_datetime, in its order
DateFormats == <<
    [sep |-> "-", order |-> <<"Y", "m", "d">>, time |-> TRUE],   \* %Y-%m-%d %H:%M:%S
    [sep |-> "-", order |-> <<"Y", "m", "d">>, time |-> FALSE],  \* %Y-%m-%d
    [sep |-> "/", order |-> <<"m", "d", "Y">>, time |-> FALSE],  \* %m/%d/%Y
    [sep |-> "/", order |-> <<"d", "m", "Y">>, time |-> FALSE],  \* %d/%m/%Y
    [sep |-> "-", order |-> <<"m", "d", "Y">>, time |-> FALSE],  \* %m-%d-%Y
    [sep |-> "-", order |-> <<"d", "m", "Y">>, time |-> FALSE]   \* %d-%m-%Y
>>

TryFormat(s, k) ==
    IF DateFormats[k].time THEN StrptimeDateTime(s)
    ELSE StrptimeDate(s, DateFormats[k].sep, DateFormats[k].order)

\* parse_datetime with the day-first formats tried before the month-first ones
parse_datetime_DayFirst(s) ==
    LET stripped == Strip(s)
        rank == <<1, 2, 4, 3, 6, 5>>
        ok == {k \in DOMAIN DateFormats : TryFormat(stripped, k) # ValueError}
    IN IF ok = {} THEN stripped
       ELSE TryFormat(stripped, CHOOSE k \in ok : \A j \in ok : rank[k] <= rank[j])

parse_datetime(s) ==
    LET stripped == Strip(s)
        ok == {k \in DOMAIN DateFormats : TryFormat(stripped, k) # ValueError}
    IN IF ok = {} THEN stripped
       ELSE TryFormat(stripped, CHOOSE k \in ok : \A j \in ok : k <= j)

----------------------------------------------------------------------------
(* The documents: sequences of the lines below.  re.findall is given by    *)
(* what it returns on each line; on the text of a document (each line       *)
(* followed by "\n") every pattern returns the matches of the lines in      *)
(* order, no match of these patterns on these lines spanning two lines.     *)

LnClassification ==  \* Classification: secret.
    <<"C", "l", "a", "s", "s", "i", "f", "i", "c", "a", "t", "i", "o", "n", ":", " ", "s", "e", "c", "r", "e", "t", ".">>

LnBanner ==  \* SECRET//NOFORN.
    <<"S", "E", "C", "R", "E", "T", "/", "/", "N", "O", "F", "O", "R", "N", ".">>

LnDate ==  \* Date: 01/15/2023
    <<"D", "a", "t", "e", ":", " ", "0", "1", "/", "1", "5", "/", "2", "0", "2", "3">>

LnSeen ==  \* Seen 03/04/2023.
    <<"S", "e", "e", "n", " ", "0", "3", "/", "0", "4", "/", "2", "0", "2", "3", ".">>

LnUnit ==  \* Unit: a1
    <<"U", "n", "i", "t", ":", " ", "a", "1">>

LnReportingUnit ==  \* Reporting Unit: bravo 2
    <<"R", "e", "p", "o", "r", "t", "i", "n", "g", " ", "U", "n", "i", "t", ":", " ", "b", "r", "a", "v", "o", " ", "2">>

LnFrom ==  \* From: hq
    <<"F", "r", "o", "m", ":", " ", "h", "q">>

LnMgrs ==  \* MGRS: 38s mb 1234.
    <<"M", "G", "R", "S", ":", " ", "3", "8", "s", " ", "m", "b", " ", "1", "2", "3", "4", ".">>

LnGrid ==  \* Grid: 38SMB1234.
    <<"G", "r", "i", "d", ":", " ", "3", "8", "S", "M", "B", "1", "2", "3", "4", ".">>

LnPreparedBy ==  \* Prepared by: J. Smith
    <<"P", "r", "e", "p", "a", "r", "e", "d", " ", "b", "y", ":", " ", "J", ".", " ", "S", "m", "i", "t", "h">>

LnRecommendations ==  \* Recommendations:
    <<"R", "e", "c", "o", "m", "m", "e", "n", "d", "a", "t", "i", "o", "n", "s", ":">>

LnEquipment ==  \* uav UAV uas drone radio 1.5 MHz.
    <<"u", "a", "v", " ", "U", "A", "V", " ", "u", "a", "s", " ", "d", "r", "o", "n", "e", " ", "r", "a", "d", "i", "o", " ", "1", ".", "5", " ", "M", "H", "z", ".">>

LnThemes ==  \* threat convoy uav radio patrol intel.
    <<"t", "h", "r", "e", "a", "t", " ", "c", "o", "n", "v", "o", "y", " ", "u", "a", "v", " ", "r", "a", "d", "i", "o", " ", "p", "a", "t", "r", "o", "l", " ", "i", "n", "t", "e", "l", ".">>

LnContact ==  \* Contact near Camp Alpha at Baghdad.
    <<"C", "o", "n", "t", "a", "c", "t", " ", "n", "e", "a", "r", " ", "C", "a", "m", "p", " ", "A", "l", "p", "h", "a", " ", "a", "t", " ", "B", "a", "g", "h", "d", "a", "d", ".">>

LnNothing ==  \* Nothing to add.
    <<"N", "o", "t", "h", "i", "n", "g", " ", "t", "o", " ", "a", "d", "d", ".">>

LnBlank == <<>>  \* an empty line

Vocabulary == {LnClassification, LnBanner, LnDate, LnSeen,
               LnUnit, LnReportingUnit, LnFrom, LnMgrs,
               LnGrid, LnPreparedBy, LnRecommendations, LnEquipment,
               LnThemes, LnContact, LnNothing, LnBlank}

\* re.findall(self.patterns[t][p], line, re.IGNORECASE | re.MULTILINE), for the
\* lines of Vocabulary; the captured group of each match, in document order
LineFindall(t, p, line) ==
    CASE line = LnClassification ->
           (CASE t = "classification" /\ p = 1 -> <<<<"s", "e", "c", "r", "e", "t">>>>
              [] t = "classification" /\ p = 2 -> <<<<"s", "e", "c", "r", "e", "t">>>>
              [] OTHER -> <<>>)
      [] line = LnBanner ->
           (CASE t = "classification" /\ p = 3 -> <<<<"S", "E", "C", "R", "E", "T", "/", "/", "N", "O", "F", "O", "R", "N">>>>
              [] t = "classification" /\ p = 4 -> <<<<"S", "E", "C", "R", "E", "T">>>>
              [] OTHER -> <<>>)
      [] line = LnDate ->
           (CASE t = "date_time" /\ p = 2 -> <<<<"0", "1", "/", "1", "5", "/", "2", "0", "2", "3">>>>
              [] t = "date_time" /\ p = 5 -> <<<<"0", "1", "/", "1", "5", "/", "2", "0", "2", "3">>>>
              [] OTHER -> <<>>)
      [] line = LnSeen ->
           (CASE t = "date_time" /\ p = 5 -> <<<<"0", "3", "/", "0", "4", "/", "2", "0", "2", "3">>>>
              [] t = "unit" /\ p = 5 -> <<<<"S", "e", "e", "n", " ", "0", "3">>>>
              [] OTHER -> <<>>)
      [] line = LnUnit ->
           (CASE t = "unit" /\ p = 2 -> <<<<"a", "1">>>>
              [] OTHER -> <<>>)
      [] line = LnReportingUnit ->
           (CASE t = "unit" /\ p = 1 -> <<<<"b", "r", "a", "v", "o", " ", "2">>>>
              [] t = "unit" /\ p = 2 -> <<<<"b", "r", "a", "v", "o", " ", "2">>>>
              [] t = "unit" /\ p = 5 -> <<<<"b", "r", "a", "v", "o", " ", "2">>>>
              [] OTHER -> <<>>)
      [] line = LnFrom ->
           (CASE t = "unit" /\ p = 3 -> <<<<"h", "q">>>>
              [] OTHER -> <<>>)
      [] line = LnMgrs ->
           (CASE t = "unit" /\ p = 5 -> <<<<"m", "b", " ", "1", "2", "3", "4">>>>
              [] t = "location_mgrs" /\ p = 2 -> <<<<"3", "8", "s", " ", "m", "b", " ", "1", "2", "3", "4">>>>
              [] OTHER -> <<>>)
      [] line = LnGrid ->
           (CASE t = "location_mgrs" /\ p = 3 -> <<<<"3", "8", "S", "M", "B", "1", "2", "3", "4">>>>
              [] t = "location_mgrs" /\ p = 4 -> <<<<"3", "8", "S", "M", "B", "1", "2", "3", "4">>>>
              [] OTHER -> <<>>)
      [] line = LnPreparedBy ->
           (CASE t = "analyst" /\ p = 2 -> <<<<"J", ".", " ", "S", "m", "i", "t", "h">>>>
              [] t = "analyst" /\ p = 4 -> <<<<"J", ".", " ", "S", "m", "i", "t", "h">>>>
              [] OTHER -> <<>>)
      [] line = LnRecommendations ->
           (CASE t = "recommendations" /\ p = 1 -> <<<<>>>>
              [] OTHER -> <<>>)
      [] line = LnEquipment ->
           (CASE t = "unit" /\ p = 5 -> <<<<"r", "a", "d", "i", "o", " ", "1">>>>
              [] t = "source_type" /\ p = 1 -> <<<<"u", "a", "v">>, <<"U", "A", "V">>>>
              [] OTHER -> <<>>)
      [] line = LnThemes ->
           (CASE t = "location_name" /\ p = 4 -> <<<<"c", "o", "n", "v", "o", "y", " ", "u", "a", "v", " ", "r", "a", "d", "i", "o", " ", "p", "a", "t", "r", "o", "l", " ", "i", "n", "t", "e", "l">>>>
              [] t = "source_type" /\ p = 1 -> <<<<"u", "a", "v">>>>
              [] OTHER -> <<>>)
      [] line = LnContact ->
           (CASE t = "location_name" /\ p = 4 -> <<<<"C", "a", "m", "p", " ", "A", "l", "p", "h", "a", " ", "a", "t", " ", "B", "a", "g", "h", "d", "a", "d">>>>
              [] OTHER -> <<>>)
      [] OTHER -> <<>>

\* re.findall of pattern p of the entity category t on a line of Vocabulary
EntityLineFindall(t, p, line) ==
    CASE line = LnPreparedBy ->
           (CASE t = "people" /\ p = 1 -> <<<<"J", ".", " ", "S", "m", "i", "t", "h">>>>
              [] OTHER -> <<>>)
      [] line = LnEquipment ->
           (CASE t = "equipment" /\ p = 1 -> <<<<"u", "a", "v">>, <<"U", "A", "V">>, <<"u", "a", "s">>, <<"d", "r", "o", "n", "e">>>>
              [] t = "equipment" /\ p = 2 -> <<<<"1", ".", "5", " ", "M", "H", "z">>>>
              [] t = "equipment" /\ p = 3 -> <<<<"r", "a", "d", "i", "o">>>>
              [] OTHER -> <<>>)
      [] line = LnThemes ->
           (CASE t = "equipment" /\ p = 1 -> <<<<"u", "a", "v">>>>
              [] t = "equipment" /\ p = 3 -> <<<<"r", "a", "d", "i", "o">>>>
              [] OTHER -> <<>>)
      [] line = LnContact ->
           (CASE t = "places" /\ p = 2 -> <<<<"C", "a", "m", "p", " ", "A", "l", "p", "h", "a">>, <<"B", "a", "g", "h", "d", "a", "d">>>>
              [] OTHER -> <<>>)
      [] OTHER -> <<>>
\* the text of a document: each line followed by a newline
TextOf(doc) == Concat([i \in DOMAIN doc |-> doc[i] \o <<"\n">>])

\* lines for the documents the classifier is applied to on its own
KwIntelligenceSummary == <<"I", "n", "t", "e", "l", "l", "i", "g", "e", "n", "c", "e", " ", "S", "u", "m", "m", "a", "r", "y">>  \* Intelligence Summary
KwSitrep == <<"S", "I", "T", "R", "E", "P">>  \* SITREP
KwIntel == <<"i", "n", "t", "e", "l", " ", "r", "e", "p", "o", "r", "t">>  \* intel report
KwAssessment == <<"A", "s", "s", "e", "s", "s", "m", "e", "n", "t">>  \* Assessment
KwAnalysis == <<"a", "n", "a", "l", "y", "s", "i", "s">>  \* analysis
KwSituation == <<"s", "i", "t", "u", "a", "t", "i", "o", "n">>  \* situation
KwPatrol == <<"P", "a", "t", "r", "o", "l">>  \* Patrol
KwMission == <<"M", "i", "s", "s", "i", "o", "n">>  \* Mission
KwIncident == <<"i", "n", "c", "i", "d", "e", "n", "t">>  \* incident
KwPrevent == <<"p", "r", "e", "v", "e", "n", "t">>  \* prevent
KwContact == <<"c", "o", "n", "t", "a", "c", "t">>  \* contact
KwBriefing == <<"B", "r", "i", "e", "f", "i", "n", "g">>  \* Briefing
KwWeather == <<"w", "e", "a", "t", "h", "e", "r">>  \* weather

KeywordLines == {KwIntelligenceSummary, KwSitrep, KwIntel, KwAssessment,
                 KwAnalysis, KwSituation, KwPatrol, KwMission,
                 KwIncident, KwPrevent, KwContact, KwBriefing,
                 KwWeather}

\* line.lower(), for the lines documents are made of
LowerLine == [line \in Vocabulary \cup KeywordLines |-> Lower(line)]

\* "word in text.lower()", for a word that has no newline in it: such a word
\* is in the text exactly when it is in one of its lines
InTextLower(word, doc) == \E i \in DOMAIN doc : Contains(word, LowerLine[doc[i]])

----------------------------------------------------------------------------
(* __init__: the pattern registry and the cleaners.                         *)

\* the keys of self.patterns, in the order of the dict
FieldTypes == <<"classification", "date_time", "unit", "location_mgrs",
                "location_name", "analyst", "summary", "assessment",
                "recommendations", "confidence", "source_type">>

\* len(self.patterns[t])
NumPatterns(t) ==
    CASE t = "classification" -> 4
      [] t = "date_time" -> 6
      [] t = "unit" -> 5
      [] t = "location_mgrs" -> 4
      [] t = "location_name" -> 4
      [] t = "analyst" -> 4
      [] OTHER -> 3

\* the keys of self.cleaners
CleanerTypes == {"classification", "date_time", "location_mgrs", "location_name",
                 "analyst", "confidence", "source_type"}

\* self.cleaners[t](x)
Cleaner(t, x) ==
    CASE t = "classification" -> Upper(Strip(x))
      [] t = "date_time" -> parse_datetime(x)
      [] t = "location_mgrs" -> RemoveWhiteSpace(Upper(x))
      [] t \in {"location_name", "analyst", "confidence"} -> Title(Strip(x))
      [] t = "source_type" -> Upper(Strip(x))

----------------------------------------------------------------------------
(* calculate_confidence, in tenths (0.5 is 5).                              *)

cClassificationColon ==
    <<"c", "l", "a", "s", "s", "i", "f", "i", "c", "a", "t", "i", "o", "n", ":">>
cDate == <<"d", "a", "t", "e">>
cTime == <<"t", "i", "m", "e">>
cUnit == <<"u", "n", "i", "t">>
cMgrs == <<"m", "g", "r", "s">>

Min(a, b) == IF a <= b THEN a ELSE b
Max(a, b) == IF a >= b THEN a ELSE b

\* calculate_confidence with the bonuses as independent "if"s that do not test
\* the field type
calculate_confidence_AnyCue(field_type, value, doc) ==
    LET bonus == (IF InTextLower(cClassificationColon, doc) THEN 3 ELSE 0)
                 + (IF \E w \in {cDate, cTime} : InTextLower(w, doc) THEN 2 ELSE 0)
                 + (IF InTextLower(cUnit, doc) THEN 3 ELSE 0)
                 + (IF InTextLower(cMgrs, doc) THEN 4 ELSE 0)
        penalty == IF Len(value) < 3 THEN 2 ELSE 0
    IN Min(10, Max(1, 5 + bonus - penalty))

calculate_confidence(field_type, value, doc) ==
    LET base == 5
        bonus ==
            IF field_type = "classification" /\ InTextLower(cClassificationColon, doc)
            THEN 3
            ELSE IF field_type = "date_time"
                    /\ \E w \in {cDate, cTime} : InTextLower(w, doc)
            THEN 2
            ELSE IF field_type = "unit" /\ InTextLower(cUnit, doc)
            THEN 3
            ELSE IF field_type = "location_mgrs" /\ InTextLower(cMgrs, doc)
            THEN 4
            ELSE 0
        penalty == IF Len(value) < 3 THEN 2 ELSE 0
    IN Min(10, Max(1, base + bonus - penalty))

----------------------------------------------------------------------------
(* classify_document_type.                                                  *)

wIntelligence == <<"i", "n", "t", "e", "l", "l", "i", "g", "e", "n", "c", "e">>
wIntel == <<"i", "n", "t", "e", "l">>
wAssessment == <<"a", "s", "s", "e", "s", "s", "m", "e", "n", "t">>
wAnalysis == <<"a", "n", "a", "l", "y", "s", "i", "s">>
wSummary == <<"s", "u", "m", "m", "a", "r", "y">>
wSitrep == <<"s", "i", "t", "r", "e", "p">>
wSituation == <<"s", "i", "t", "u", "a", "t", "i", "o", "n">>
wPatrol == <<"p", "a", "t", "r", "o", "l">>
wMission == <<"m", "i", "s", "s", "i", "o", "n">>
wOperation == <<"o", "p", "e", "r", "a", "t", "i", "o", "n">>
wIncident == <<"i", "n", "c", "i", "d", "e", "n", "t">>
wEvent == <<"e", "v", "e", "n", "t">>
wContact == <<"c", "o", "n", "t", "a", "c", "t">>
wBrief == <<"b", "r", "i", "e", "f">>
wBriefing == <<"b", "r", "i", "e", "f", "i", "n", "g">>

\* any(word in text_lower for word in words)
AnyIn(words, doc) == \E w \in words : InTextLower(w, doc)

\* classify_document_type with the mission rule tried before the intelligence rule
classify_document_type_MissionFirst(doc) ==
    IF AnyIn({wPatrol, wMission, wOperation}, doc) THEN "mission_report"
    ELSE IF AnyIn({wIntelligence, wIntel, wAssessment, wAnalysis}, doc)
    THEN IF AnyIn({wSummary, wSitrep, wSituation}, doc) THEN "intelligence_summary"
         ELSE IF AnyIn({wAssessment, wAnalysis}, doc) THEN "intelligence_assessment"
         ELSE "intelligence_report"
    ELSE IF AnyIn({wIncident, wEvent, wContact}, doc) THEN "incident_report"
    ELSE IF AnyIn({wBrief, wBriefing}, doc) THEN "briefing"
    ELSE "general_document"

classify_document_type(doc) ==
    IF AnyIn({wIntelligence, wIntel, wAssessment, wAnalysis}, doc)
    THEN IF AnyIn({wSummary, wSitrep, wSituation}, doc) THEN "intelligence_summary"
         ELSE IF AnyIn({wAssessment, wAnalysis}, doc) THEN "intelligence_assessment"
         ELSE "intelligence_report"
    ELSE IF AnyIn({wPatrol, wMission, wOperation}, doc) THEN "mission_report"
    ELSE IF AnyIn({wIncident, wEvent, wContact}, doc) THEN "incident_report"
    ELSE IF AnyIn({wBrief, wBriefing}, doc) THEN "briefing"
    ELSE "general_document"

----------------------------------------------------------------------------
(* extract_themes.                                                          *)

\* theme_keywords, in the order of the dict
ThemeNames == <<"security", "logistics", "surveillance", "communications",
                "movement", "intelligence">>

ThemeKeywords(theme) ==
    CASE theme = "security" ->
           {<<"s", "e", "c", "u", "r", "i", "t", "y">>, <<"t", "h", "r", "e", "a", "t">>,
            <<"h", "o", "s", "t", "i", "l", "e">>, <<"e", "n", "e", "m", "y">>,
            <<"i", "n", "s", "u", "r", "g", "e", "n", "t">>}
      [] theme = "logistics" ->
           {<<"s", "u", "p", "p", "l", "y">>, <<"r", "e", "s", "u", "p", "p", "l", "y">>,
            <<"c", "o", "n", "v", "o", "y">>, <<"l", "o", "g", "i", "s", "t", "i", "c", "s">>,
            <<"e", "q", "u", "i", "p", "m", "e", "n", "t">>}
      [] theme = "surveillance" ->
           {<<"u", "a", "v">>, <<"s", "u", "r", "v", "e", "i", "l", "l", "a", "n", "c", "e">>,
            <<"o", "b", "s", "e", "r", "v", "a", "t", "i", "o", "n">>,
            <<"m", "o", "n", "i", "t", "o", "r", "i", "n", "g">>, <<"i", "s", "r">>}
      [] theme = "communications" ->
           {<<"c", "o", "m", "m", "s">>, <<"r", "a", "d", "i", "o">>,
            <<"f", "r", "e", "q", "u", "e", "n", "c", "y">>, <<"s", "i", "g", "n", "a", "l">>,
            <<"t", "r", "a", "n", "s", "m", "i", "s", "s", "i", "o", "n">>}
      [] theme = "movement" ->
           {<<"m", "o", "v", "e", "m", "e", "n", "t">>, wPatrol,
            <<"v", "e", "h", "i", "c", "l", "e">>, <<"a", "c", "t", "i", "v", "i", "t", "y">>,
            <<"f", "o", "r", "m", "a", "t", "i", "o", "n">>}
      [] theme = "intelligence" ->
           {wIntel, <<"h", "u", "m", "i", "n", "t">>, <<"s", "i", "g", "i", "n", "t">>,
            <<"i", "m", "i", "n", "t">>, wAnalysis}

\* s[:n]
Prefix(s, n) == SubSeq(s, 1, Min(n, Len(s)))

\* extract_themes without the cut to five
extract_themes_NoLimit(doc) ==
    SelectSeq(ThemeNames, LAMBDA th : AnyIn(ThemeKeywords(th), doc))

extract_themes(doc) ==
    LET themes == SelectSeq(ThemeNames, LAMBDA th : AnyIn(ThemeKeywords(th), doc))
    IN Prefix(themes, 5)

----------------------------------------------------------------------------
(* extract_entities.                                                        *)

EntityTypes == <<"people", "places", "organizations", "equipment">>

\* len(people_patterns), len(place_patterns), len(equipment_patterns)
NumEntityPatterns(c) ==
    CASE c = "people" -> 2
      [] c = "places" -> 2
      [] c = "equipment" -> 3
      [] OTHER -> 0

\* entities[c] after the three loops of extend(re.findall(pattern, text))
EntityMatches(c, doc) ==
    Concat([p \in 1..NumEntityPatterns(c) |->
              Concat([i \in DOMAIN doc |-> EntityLineFindall(c, p, doc[i])])])

\* the code points of the characters that occur, for the hash of a str
Alphabet == Digits \o LowerLetters \o UpperLetters \o <<" ", ".", "/", ":", "-">>

CodeOf == [c \in Range(Alphabet) |-> CHOOSE i \in DOMAIN Alphabet : Alphabet[i] = c]

CharCode(c) == IF c \in DOMAIN CodeOf THEN CodeOf[c] ELSE 0

RECURSIVE StrHash(_, _)
\* hash(s) in an interpreter whose hash salt is seed: CPython salts str hashes
\* per process, so that the value is a function of the string and the salt
StrHash(s, seed) ==
    IF s = <<>> THEN seed
    ELSE Let(SubSeq(s, 1, Len(s) - 1), LAMBDA init :
           (StrHash(init, seed) * (31 + seed) + CharCode(s[Len(s)])) % 1009)

RECURSIVE SortByHash(_, _)
\* the elements of S in the order of their hashes h
SortByHash(S, h) ==
    IF S = {} THEN <<>>
    ELSE Let(CHOOSE a \in S : \A b \in S : h[a] <= h[b], LAMBDA x :
         Let(S \ {x}, LAMBDA rest : <<x>> \o SortByHash(rest, h)))

\* list(set(xs)): the distinct elements in the order of the hash table, which
\* is the order of their salted hashes
ListOfSet(xs, seed) ==
    Let(Range(xs), LAMBDA S :
    Let([x \in S |-> StrHash(x, seed)], LAMBDA h : SortByHash(S, h)))

extract_entities(doc, seed) ==
    [c \in Range(EntityTypes) |->
        Let(EntityMatches(c, doc), LAMBDA found :
        Let(SelectSeq([i \in DOMAIN found |-> Strip(found[i])], LAMBDA e : e # <<>>),
            LAMBDA kept : Prefix(ListOfSet(kept, seed), 5)))]

----------------------------------------------------------------------------
(* extract_structured_data and post_process_extractions.                    *)

\* found = re.findall(pattern, text, re.IGNORECASE | re.MULTILINE)
findall(t, p, doc) == Concat([i \in DOMAIN doc |-> LineFindall(t, p, doc[i])])

\* the matches gathered line by line, every pattern on a line before the
\* next line: document order instead of pattern order
Matches_DocumentOrder(t, doc) ==
    Concat([i \in DOMAIN doc |->
              Concat([p \in 1..NumPatterns(t) |-> LineFindall(t, p, doc[i])])])

\* matches, after the loop over the patterns of field type t
Matches(t, doc) == Concat([p \in 1..NumPatterns(t) |-> findall(t, p, doc)])

\* one match cleaned: the cleaner of the type, or strip() when it has none
CleanMatch(t, match) == IF t \in CleanerTypes THEN Cleaner(t, match) ELSE Strip(match)

\* cleaned after one pass of the loop body: "if match and match not in cleaned"
CleanStep(cleaned, match) ==
    IF match # <<>> /\ match \notin Range(cleaned) THEN Append(cleaned, match)
    ELSE cleaned

RECURSIVE CleanLoop(_, _, _, _)
\* the loop "for match in matches" from the i-th match on, given cleaned so far
CleanLoop(t, matches, i, cleaned) ==
    IF i > Len(matches) THEN cleaned
    ELSE Let(CleanMatch(t, matches[i]), LAMBDA match :
         Let(CleanStep(cleaned, match), LAMBDA next :
             CleanLoop(t, matches, i + 1, next)))

Cleaned(t, doc) == Let(Matches(t, doc), LAMBDA matches : CleanLoop(t, matches, 1, <<>>))

\* extracted['raw_extractions'] after the loop over self.patterns
RawExtractions(doc) ==
    Let({u \in Range(FieldTypes) : Matches(u, doc) # <<>>}, LAMBDA found :
        [t \in found |-> Cleaned(t, doc)])

\* the field types that get a best match: "if cleaned:"
Selected(raw) == {t \in DOMAIN raw : raw[t] # <<>>}

\* extracted['confidence_scores'] after the loop over self.patterns
ConfidenceScores(raw, doc) ==
    [t \in Selected(raw) |-> calculate_confidence(t, raw[t][1], doc)]

\* the best match taken from the end of the list
BestMatches_Last(raw) == [t \in Selected(raw) |-> raw[t][Len(raw[t])]]

\* extracted['structured_fields'] after the loop over self.patterns
BestMatches(raw) == [t \in Selected(raw) |-> raw[t][1]]

RECURSIVE SumOf(_, _)
\* sum(f[k] for k in S)
SumOf(f, S) ==
    IF S = {} THEN 0
    ELSE Let(CHOOSE k \in S : TRUE, LAMBDA k :
         Let(S \ {k}, LAMBDA rest : f[k] + SumOf(f, rest)))

\* the date_time entry post_process_extractions adds from raw_extractions
\* 'date' and 'time', when the patterns gave none
CombinedDateTime(raw, structured) ==
    IF "date_time" \in DOMAIN structured THEN <<>>
    ELSE LET date_parts == (IF "date" \in DOMAIN raw THEN raw["date"] ELSE <<>>)
                           \o (IF "time" \in DOMAIN raw THEN raw["time"] ELSE <<>>)
         IN IF date_parts = <<>> THEN <<>>
            ELSE "date_time" :> parse_datetime(Join(<<" ">>, Prefix(date_parts, 2)))

\* post_process_extractions dividing by len(confidence_scores) without the
\* test for an empty dict: the fraction has the denominator 0
post_process_extractions_NoGuard(ex, doc, seed) ==
    Let(("key_themes" :> extract_themes(doc))
        @@ ("entities" :> extract_entities(doc, seed))
        @@ CombinedDateTime(ex.raw_extractions, ex.structured_fields)
        @@ ex.structured_fields, LAMBDA structured :
    Let(ex.confidence_scores, LAMBDA scores :
       [ex EXCEPT
          !.structured_fields = structured,
          !.extraction_metadata =
              [filename |-> ex.extraction_metadata.filename,
               extraction_time |-> ex.extraction_metadata.extraction_time,
               text_length |-> ex.extraction_metadata.text_length,
               fields_found |-> Cardinality(DOMAIN structured),
               avg_confidence |->
                   <<SumOf(scores, DOMAIN scores), 10 * Cardinality(DOMAIN scores)>>]]))

post_process_extractions(ex, doc, seed) ==
    Let(("key_themes" :> extract_themes(doc))
        @@ ("entities" :> extract_entities(doc, seed))
        @@ CombinedDateTime(ex.raw_extractions, ex.structured_fields)
        @@ ex.structured_fields, LAMBDA structured :
    Let(ex.confidence_scores, LAMBDA scores :
       [ex EXCEPT
          !.structured_fields = structured,
          !.extraction_metadata =
              [filename |-> ex.extraction_metadata.filename,
               extraction_time |-> ex.extraction_metadata.extraction_time,
               text_length |-> ex.extraction_metadata.text_length,
               fields_found |-> Cardinality(DOMAIN structured),
               \* the mean, as the fraction sum / (10 * count) of the tenths
               avg_confidence |->
                   IF DOMAIN scores # {}
                   THEN <<SumOf(scores, DOMAIN scores), 10 * Cardinality(DOMAIN scores)>>
                   ELSE <<0, 1>>]]))

extract_structured_data(doc, filename, time, seed) ==
    Let(RawExtractions(doc), LAMBDA raw :
    Let([raw_extractions |-> raw,
         structured_fields |-> BestMatches(raw),
         confidence_scores |-> ConfidenceScores(raw, doc),
         document_type |-> classify_document_type(doc),
         extraction_metadata |->
             [filename |-> filename, extraction_time |-> time,
              text_length |-> Len(TextOf(doc))]], LAMBDA ex :
        post_process_extractions(ex, doc, seed)))

----------------------------------------------------------------------------
(* format_for_database.  A record (a dict) is a function from its keys.     *)

\* d.get(key, default)
Get(d, key, default) == IF key \in DOMAIN d THEN d[key] ELSE default

\* Python's None
PyNone == <<"None">>

\* field_mapping: (extracted field, database field), in the order of the dict
FieldMapping == <<
    <<"classification", "highest_classification">>,
    <<"date_time", "timeframes">>,
    <<"location_name", "locations">>,
    <<"unit", "subjects">>,
    <<"key_themes", "topics">>,
    <<"analyst", "caveats">>
>>

\* '|'.join(labels), a label being one symbol of the string
JoinLabels(labels) == Join(<<"|">>, [i \in DOMAIN labels |-> <<labels[i]>>])

\* the value the loop over field_mapping stores for an extracted field
MappedValue(extracted_field, structured) ==
    IF extracted_field = "key_themes" THEN JoinLabels(structured[extracted_field])
    ELSE structured[extracted_field]

\* the loop over field_mapping that tests only the presence of the field
Overlay_NoTruthTest(structured, res) ==
    LET hits == {i \in DOMAIN FieldMapping : FieldMapping[i][1] \in DOMAIN structured}
    IN [c \in {FieldMapping[i][2] : i \in hits} |->
           MappedValue(FieldMapping[CHOOSE i \in hits : FieldMapping[i][2] = c][1], structured)]
       @@ res

\* result after the loop over field_mapping
Overlay(structured, res) ==
    LET hits == {i \in DOMAIN FieldMapping :
                    /\ FieldMapping[i][1] \in DOMAIN structured
                    /\ structured[FieldMapping[i][1]] # <<>>}
    IN [c \in {FieldMapping[i][2] : i \in hits} |->
           MappedValue(FieldMapping[CHOOSE i \in hits : FieldMapping[i][2] = c][1], structured)]
       @@ res

\* the MGRS merge that compares the two values for equality
MergeMgrs_Equality(structured, res) ==
    IF "location_mgrs" \in DOMAIN structured
    THEN LET existing_mgrs == Get(res, "MGRS", <<>>)
             new_mgrs == structured["location_mgrs"]
         IN IF existing_mgrs # <<>> /\ new_mgrs # existing_mgrs
            THEN ("MGRS" :> (existing_mgrs \o <<"|">> \o new_mgrs)) @@ res
            ELSE IF existing_mgrs = <<>> THEN ("MGRS" :> new_mgrs) @@ res
            ELSE res
    ELSE res

\* the MGRS merge that appends whenever there is an existing value
MergeMgrs_Append(structured, res) ==
    IF "location_mgrs" \in DOMAIN structured
    THEN LET existing_mgrs == Get(res, "MGRS", <<>>)
             new_mgrs == structured["location_mgrs"]
         IN IF existing_mgrs # <<>>
            THEN ("MGRS" :> (existing_mgrs \o <<"|">> \o new_mgrs)) @@ res
            ELSE ("MGRS" :> new_mgrs) @@ res
    ELSE res

\* "Enhance MGRS field"
MergeMgrs(structured, res) ==
    IF "location_mgrs" \in DOMAIN structured
    THEN LET existing_mgrs == Get(res, "MGRS", <<>>)
             new_mgrs == structured["location_mgrs"]
         IN IF existing_mgrs # <<>> /\ ~Contains(new_mgrs, existing_mgrs)
            THEN ("MGRS" :> (existing_mgrs \o <<"|">> \o new_mgrs)) @@ res
            ELSE IF existing_mgrs = <<>> THEN ("MGRS" :> new_mgrs) @@ res
            ELSE res
    ELSE res

\* json.dumps(obj): the text, kept as the object it encodes
JsonDumps(obj) == [json |-> obj]

\* the object format_for_database serialises
MetadataOf(data) ==
    [document_type |-> Get(data, "document_type", PyNone),
     confidence_scores |-> Get(data, "confidence_scores", <<>>),
     entities |-> Get(Get(data, "structured_fields", <<>>), "entities", <<>>),
     extraction_time |-> Get(Get(data, "extraction_metadata", <<>>), "extraction_time", PyNone)]

format_for_database(data, original) ==
    LET structured == Get(data, "structured_fields", <<>>)
    IN ("extraction_metadata" :> JsonDumps(MetadataOf(data)))
       @@ MergeMgrs(structured, Overlay(structured, original))

----------------------------------------------------------------------------
(* Extraction of a document.                                                *)

\* the largest number of lines of a document
MaxLines == 2

\* the largest hash salt of an interpreter
MaxHashSeed == 2

SeqsUpTo(S, n) == UNION {[1..k -> S] : k \in 0..n}

Documents == SeqsUpTo(Vocabulary, MaxLines)

\* the filename argument, left at its default
DefaultFilename == <<>>

IdleDb ==
    /\ original_fields = None /\ extracted_data = None /\ result = None
    /\ repeated = FALSE /\ calls = 0

IdleExtract ==
    /\ text = <<>> /\ hashSeed = 0 /\ extracted = None /\ extracted2 = None
    /\ clock = 0 /\ document_type = None

IdleDate == date_str = None /\ parsed = None /\ reparsed = None

Init ==
    /\ text \in Documents
    /\ hashSeed \in 0..MaxHashSeed
    /\ extracted = None
    /\ extracted2 = None
    /\ clock = 0
    /\ document_type = None
    /\ IdleDb
    /\ IdleDate

\* extract_structured_data(text)
Extract ==
    /\ extracted = None
    /\ extracted' = Some(extract_structured_data(text, DefaultFilename, clock, hashSeed))
    /\ clock' = clock + 1
    /\ UNCHANGED <<text, hashSeed, extracted2, document_type, dbVars, dateVars>>

Next == Extract

Spec == Init /\ [][Next]_vars

\* the interpreter is started again: a new process has a new hash salt
Restart ==
    /\ extracted # None
    /\ extracted2 = None
    /\ hashSeed' \in 0..MaxHashSeed
    /\ UNCHANGED <<text, extracted, extracted2, clock, document_type, dbVars, dateVars>>

\* extract_structured_data(text) called a second time, with the same arguments
ExtractAgain ==
    /\ extracted # None
    /\ extracted2 = None
    /\ extracted2' = Some(extract_structured_data(text, DefaultFilename, clock, hashSeed))
    /\ clock' = clock + 1
    /\ UNCHANGED <<text, hashSeed, extracted, document_type, dbVars, dateVars>>

NextRepeat == Extract \/ Restart \/ ExtractAgain

SpecRepeat == Init /\ [][NextRepeat]_vars

----------------------------------------------------------------------------
(* Classification of a document of keyword lines.                           *)

\* the largest number of lines of a document given to the classifier
MaxKeywordLines == 3

InitClassify ==
    /\ text \in SeqsUpTo(KeywordLines, MaxKeywordLines)
    /\ hashSeed = 0 /\ extracted = None /\ extracted2 = None /\ clock = 0
    /\ document_type = None
    /\ IdleDb
    /\ IdleDate

\* classify_document_type(text)
Classify ==
    /\ document_type = None
    /\ document_type' = Some(classify_document_type(text))
    /\ UNCHANGED <<extractVars, dbVars, dateVars>>

NextClassify == Classify

SpecClassify == InitClassify /\ [][NextClassify]_vars

----------------------------------------------------------------------------
(* Records formatted for the database, and formatted again.                 *)

sMgrsBaghdad ==  \* 38SMB4484536781
    <<"3", "8", "S", "M", "B", "4", "4", "8", "4", "5", "3", "6", "7", "8", "1">>
sMgrsKabul ==  \* 42SXD8914734521
    <<"4", "2", "S", "X", "D", "8", "9", "1", "4", "7", "3", "4", "5", "2", "1">>
sMgrsCoarse ==  \* 38SMB44845
    <<"3", "8", "S", "M", "B", "4", "4", "8", "4", "5">>
sReportId ==  \* report_001
    <<"r", "e", "p", "o", "r", "t", "_", "0", "0", "1">>
sKeywords ==  \* bridge inspection
    <<"b", "r", "i", "d", "g", "e", " ", "i", "n", "s", "p", "e", "c", "t", "i", "o", "n">>
sUnclassified ==  \* UNCLASSIFIED
    <<"U", "N", "C", "L", "A", "S", "S", "I", "F", "I", "E", "D">>
sTimeframes ==  \* 2023-01-15|2023-01-20
    <<"2", "0", "2", "3", "-", "0", "1", "-", "1", "5", "|", "2", "0", "2", "3", "-", "0", "1", "-", "2", "0">>
sLocations ==  \* Baghdad|Iraq
    <<"B", "a", "g", "h", "d", "a", "d", "|", "I", "r", "a", "q">>
sSubjects ==  \* Infrastructure Assessment
    <<"I", "n", "f", "r", "a", "s", "t", "r", "u", "c", "t", "u", "r", "e", " ", "A", "s", "s", "e", "s", "s", "m", "e", "n", "t">>
sTopics ==  \* Transportation|Security
    <<"T", "r", "a", "n", "s", "p", "o", "r", "t", "a", "t", "i", "o", "n", "|", "S", "e", "c", "u", "r", "i", "t", "y">>
sSecret ==  \* SECRET
    <<"S", "E", "C", "R", "E", "T">>
sIsoDate ==  \* 2023-03-04
    <<"2", "0", "2", "3", "-", "0", "3", "-", "0", "4">>
sBaghdad ==  \* Baghdad
    <<"B", "a", "g", "h", "d", "a", "d">>
sUnitA1 ==  \* a1
    <<"a", "1">>
sAnalyst ==  \* J. Smith
    <<"J", ".", " ", "S", "m", "i", "t", "h">>

\* the largest number of format_for_database calls made on one record
MaxCalls == 2

\* records the caller passes in: a full row, an empty mapping, a row with an
\* empty MGRS and the metadata of an earlier extraction, a row with two grids
OriginalRecords == {
    [id |-> sReportId, keywords |-> sKeywords, highest_classification |-> sUnclassified,
     caveats |-> <<>>, locations |-> sLocations, timeframes |-> sTimeframes,
     subjects |-> sSubjects, topics |-> sTopics, MGRS |-> sMgrsBaghdad],
    <<>>,
    [id |-> sReportId, topics |-> sTopics, MGRS |-> <<>>,
     extraction_metadata |-> JsonDumps([document_type |-> "briefing"])],
    [id |-> sReportId, keywords |-> sKeywords,
     MGRS |-> sMgrsBaghdad \o <<"|">> \o sMgrsKabul]
}

\* structured_fields of the six mapped fields: absent, empty or with a value
MappedProfiles == {
    <<>>,
    [classification |-> sSecret, date_time |-> sIsoDate, location_name |-> sBaghdad,
     unit |-> sUnitA1, key_themes |-> <<"security", "logistics">>, analyst |-> sAnalyst],
    [classification |-> <<>>, date_time |-> <<>>, location_name |-> <<>>,
     unit |-> <<>>, key_themes |-> <<>>, analyst |-> <<>>],
    [classification |-> sSecret, unit |-> sUnitA1, key_themes |-> <<>>],
    [date_time |-> <<>>, key_themes |-> <<"movement">>, analyst |-> sAnalyst],
    [classification |-> <<>>, date_time |-> sIsoDate, location_name |-> sBaghdad,
     analyst |-> <<>>]
}

\* structured_fields['location_mgrs']: absent, or one of these
MgrsProfiles == {<<>>} \cup
    {[location_mgrs |-> m] : m \in {sMgrsBaghdad, sMgrsKabul, sMgrsCoarse, <<>>}}

NoEntities == [c \in Range(EntityTypes) |-> <<>>]

\* extraction results written out, and three that extract_structured_data
\* returns
ExtractionResults ==
    {[raw_extractions |-> <<>>,
      structured_fields |-> m @@ f @@ [key_themes |-> <<>>, entities |-> NoEntities],
      confidence_scores |-> [t \in {u \in DOMAIN f \ {"key_themes"} : f[u] # <<>>} |-> 5],
      document_type |-> "mission_report",
      extraction_metadata |-> [filename |-> <<>>, extraction_time |-> Cardinality(DOMAIN f),
                               text_length |-> 0,
                               fields_found |-> Cardinality(DOMAIN (m @@ f)) + 2,
                               avg_confidence |-> <<0, 1>>]] :
        m \in MgrsProfiles, f \in MappedProfiles}
    \cup {extract_structured_data(doc, DefaultFilename, 0, 0) :
            doc \in {<<>>, <<LnGrid, LnThemes>>, <<LnClassification, LnPreparedBy>>}}

InitDb ==
    /\ original_fields \in OriginalRecords
    /\ extracted_data = None
    /\ result = None
    /\ repeated = FALSE
    /\ calls = 0
    /\ IdleExtract
    /\ IdleDate

\* format_for_database(data, record) on the caller's record
Format ==
    /\ calls = 0
    /\ \E data \in ExtractionResults :
          /\ extracted_data' = Some(data)
          /\ result' = Some(format_for_database(data, original_fields))
    /\ repeated' = FALSE
    /\ calls' = 1
    /\ UNCHANGED <<original_fields, extractVars, document_type, dateVars>>

\* the record returned is fed back in with the same extraction
FormatAgain ==
    /\ calls >= 1 /\ calls < MaxCalls
    /\ original_fields' = result[1]
    /\ result' = Some(format_for_database(extracted_data[1], result[1]))
    /\ repeated' = TRUE
    /\ calls' = calls + 1
    /\ UNCHANGED <<extracted_data, extractVars, document_type, dateVars>>

\* the record returned is fed back in with another extraction
FormatNext ==
    /\ calls >= 1 /\ calls < MaxCalls
    /\ \E data \in ExtractionResults \ {extracted_data[1]} :
          /\ extracted_data' = Some(data)
          /\ result' = Some(format_for_database(data, result[1]))
    /\ original_fields' = result[1]
    /\ repeated' = FALSE
    /\ calls' = calls + 1
    /\ UNCHANGED <<extractVars, document_type, dateVars>>

NextDb == Format \/ FormatAgain \/ FormatNext

SpecDb == InitDb /\ [][NextDb]_vars

----------------------------------------------------------------------------
(* Strings written out, and the arguments parse_datetime is applied to.      *)

Blanks(n) == [i \in 1..n |-> " "]

\* the largest number of blanks put before and after a date string
MaxPad == 1

DateFields == {<<"1">>, <<"0", "1">>, <<"0", "3">>, <<"0", "4">>, <<"1", "2">>,
               <<"1", "5">>, <<"3", "0">>, <<"2", "0", "2", "3">>,
               <<"0", "9", "9", "9">>}

DateSeparators == {"-", "/"}

TimeSuffixes == {<<>>,
                 <<" ", "1", "0", ":", "0", "0", ":", "0", "0">>,
                 <<" ", " ", "7", ":", "5", ":", "6", "0">>,
                 <<"T", "1", "0", ":", "0", "0", ":", "0", "0">>}

NotADate == <<"n", "o", "t", "-", "a", "-", "d", "a", "t", "e">>

DateStrings ==
    {Blanks(n) \o f[1] \o <<sep>> \o f[2] \o <<sep>> \o f[3] \o t \o Blanks(n) :
        n \in 0..MaxPad, f \in DateFields \X DateFields \X DateFields,
        sep \in DateSeparators, t \in TimeSuffixes}
    \cup {<<>>, NotADate, Blanks(1) \o NotADate}

InitDate ==
    /\ date_str \in DateStrings
    /\ parsed = None
    /\ reparsed = None
    /\ IdleExtract
    /\ IdleDb

\* parse_datetime(date_str)
ParseDatetime ==
    /\ parsed = None
    /\ parsed' = Some(parse_datetime(date_str))
    /\ UNCHANGED <<date_str, reparsed, extractVars, document_type, dbVars>>

\* parse_datetime applied to its own result
ReparseDatetime ==
    /\ parsed # None
    /\ reparsed = None
    /\ reparsed' = Some(parse_datetime(parsed[1]))
    /\ UNCHANGED <<date_str, parsed, extractVars, document_type, dbVars>>

NextDate == ParseDatetime \/ ReparseDatetime

SpecDate == InitDate /\ [][NextDate]_vars

----------------------------------------------------------------------------
(* The properties of extract_structured_data.                               *)

SyntheticFields == {"key_themes", "entities"}

\* some pattern of field type t has a match on the document whose cleaned
\* text is not empty
HasCandidate(t, doc) ==
    \E p \in 1..NumPatterns(t) : \E i \in DOMAIN doc :
        \E k \in DOMAIN LineFindall(t, p, doc[i]) :
            CleanMatch(t, LineFindall(t, p, doc[i])[k]) # <<>>

NoDuplicates(s) == \A i, j \in DOMAIN s : s[i] = s[j] => i = j

\* C1: a field type none of whose patterns yields a non-empty cleaned candidate
\* is a key of neither raw_extractions nor structured_fields, and every list
\* in raw_extractions is non-empty.
C1_AbsenceInvariant ==
    extracted # None =>
        LET e == extracted[1]
        IN /\ \A t \in Range(FieldTypes) :
                 ~HasCandidate(t, text) =>
                     t \notin DOMAIN e.raw_extractions /\ t \notin DOMAIN e.structured_fields
           /\ \A t \in DOMAIN e.raw_extractions : e.raw_extractions[t] # <<>>

\* C2: every field type in structured_fields, key_themes and entities aside,
\* is in raw_extractions, and its value is the first candidate of the list,
\* whatever the confidence of the candidates.
C2_BestMatchRule ==
    extracted # None =>
        LET e == extracted[1]
        IN \A t \in DOMAIN e.structured_fields \ SyntheticFields :
              /\ t \in DOMAIN e.raw_extractions
              /\ e.raw_extractions[t] # <<>>
              /\ e.structured_fields[t] = e.raw_extractions[t][1]

\* a field has a second candidate that would score higher than the first, and
\* the first is the one selected
C2_Witness ==
    /\ extracted # None
    /\ \E t \in DOMAIN extracted[1].raw_extractions :
          LET c == extracted[1].raw_extractions[t]
          IN /\ Len(c) >= 2
             /\ calculate_confidence(t, c[2], text) > calculate_confidence(t, c[1], text)
             /\ extracted[1].structured_fields[t] = c[1]

\* C3: two calls with the same text and filename return the same
\* structured_fields, raw_extractions and document_type.
C3_Determinism ==
    (extracted # None /\ extracted2 # None) =>
        /\ extracted2[1].structured_fields = extracted[1].structured_fields
        /\ extracted2[1].raw_extractions = extracted[1].raw_extractions
        /\ extracted2[1].document_type = extracted[1].document_type

\* the context bonus of a field type, in tenths
ContextBonus(t) ==
    CASE t = "classification" -> 3
      [] t = "date_time" -> 2
      [] t = "unit" -> 3
      [] t = "location_mgrs" -> 4
      [] OTHER -> 0

\* C4: confidence_scores has an entry exactly for the field types with a
\* pattern-matched structured_fields value; every score is between 0.1 and
\* 1.0 and is 0.5, plus at most the one bonus of the type, minus 0.2 when
\* the selected value has fewer than 3 characters, clamped.
C4_ConfidenceBounds ==
    extracted # None =>
        LET e == extracted[1]
        IN /\ DOMAIN e.confidence_scores = DOMAIN e.structured_fields \ SyntheticFields
           /\ \A t \in DOMAIN e.confidence_scores :
                 LET sc == e.confidence_scores[t]
                     penalty == IF Len(e.structured_fields[t]) < 3 THEN 2 ELSE 0
                 IN /\ 1 <= sc /\ sc <= 10
                    /\ \E bonus \in {0, ContextBonus(t)} :
                          sc = Min(10, Max(1, 5 + bonus - penalty))

\* a short value is scored with its bonus and the penalty (0.6), and another
\* value with the largest bonus (0.9)
C4_Witness ==
    /\ extracted # None
    /\ LET sc == extracted[1].confidence_scores
       IN /\ \E t \in DOMAIN sc : sc[t] = 6 /\ Len(extracted[1].structured_fields[t]) < 3
          /\ \E t \in DOMAIN sc : sc[t] = 9

IndexIn(seq, x) == CHOOSE i \in DOMAIN seq : seq[i] = x

\* the theme has one of its keywords in the lower-cased text of the document
Qualifies(th, doc) == \E w \in ThemeKeywords(th) : Contains(w, Lower(TextOf(doc)))

\* C8: key_themes has at most 5 entries, no duplicate, and is a prefix of the
\* qualifying themes in the declared order; every list of entities has at
\* most 5 entries, no duplicate and no empty string.
C8_ThemeAndEntityCaps ==
    extracted # None =>
        LET kt == extracted[1].structured_fields["key_themes"]
            en == extracted[1].structured_fields["entities"]
        IN /\ Len(kt) <= 5
           /\ NoDuplicates(kt)
           /\ \A i \in DOMAIN kt : kt[i] \in Range(ThemeNames) /\ Qualifies(kt[i], text)
           /\ \A i, j \in DOMAIN kt :
                 i < j => IndexIn(ThemeNames, kt[i]) < IndexIn(ThemeNames, kt[j])
           /\ \A th \in Range(ThemeNames) :
                 (Qualifies(th, text) /\ th \notin Range(kt)) =>
                     /\ Len(kt) = 5
                     /\ \A i \in DOMAIN kt :
                           IndexIn(ThemeNames, kt[i]) < IndexIn(ThemeNames, th)
           /\ DOMAIN en = Range(EntityTypes)
           /\ \A c \in DOMAIN en :
                 Len(en[c]) <= 5 /\ NoDuplicates(en[c]) /\ <<>> \notin Range(en[c])

\* all six themes qualify and "intelligence" is the one dropped, and a
\* category with more than 5 distinct matches is cut to 5
C8_Witness ==
    /\ extracted # None
    /\ \A th \in Range(ThemeNames) : Qualifies(th, text)
    /\ extracted[1].structured_fields["key_themes"] =
           <<"security", "logistics", "surveillance", "communications", "movement">>
    /\ \E c \in Range(EntityTypes) :
          /\ Cardinality(Range(EntityMatches(c, text))) > 5
          /\ Len(extracted[1].structured_fields["entities"][c]) = 5

----------------------------------------------------------------------------
(* The properties of classify_document_type.                                *)

DocumentTypes == {"intelligence_summary", "intelligence_assessment",
                  "intelligence_report", "mission_report", "incident_report",
                  "briefing", "general_document"}

\* one of the words is in the lower-cased text
HasAny(words, doc) == \E w \in words : Contains(w, Lower(TextOf(doc)))

\* C7: the label is one of the seven, chosen by the first rule that applies:
\* an intelligence-related keyword gives intelligence_summary with a summary
\* keyword, else intelligence_assessment with an assessment keyword, else
\* intelligence_report; else mission, incident, briefing keywords in that
\* order; else general_document.
C7_Classification ==
    document_type # None =>
        LET label == document_type[1]
            intel == HasAny({wIntelligence, wIntel, wAssessment, wAnalysis}, text)
            summary == HasAny({wSummary, wSitrep, wSituation}, text)
            assess == HasAny({wAssessment, wAnalysis}, text)
            mission == HasAny({wPatrol, wMission, wOperation}, text)
            incident == HasAny({wIncident, wEvent, wContact}, text)
            brief == HasAny({wBrief, wBriefing}, text)
        IN /\ label \in DocumentTypes
           /\ (intel /\ summary) => label = "intelligence_summary"
           /\ (intel /\ ~summary /\ assess) => label = "intelligence_assessment"
           /\ (intel /\ ~summary /\ ~assess) => label = "intelligence_report"
           /\ (~intel /\ mission) => label = "mission_report"
           /\ (~intel /\ ~mission /\ incident) => label = "incident_report"
           /\ (~intel /\ ~mission /\ ~incident /\ brief) => label = "briefing"
           /\ (~intel /\ ~mission /\ ~incident /\ ~brief) => label = "general_document"
           /\ label \in {"mission_report", "incident_report", "briefing"} => ~intel
           /\ (KwIntelligenceSummary \in Range(text) /\ KwSitrep \in Range(text))
                 => label = "intelligence_summary"

\* "Intelligence Summary" and "SITREP" with a mission keyword beside them
C7_Witness ==
    /\ document_type = Some("intelligence_summary")
    /\ KwIntelligenceSummary \in Range(text)
    /\ KwSitrep \in Range(text)
    /\ KwPatrol \in Range(text)

----------------------------------------------------------------------------
(* The properties of format_for_database.  In a state after a call,         *)
(* original_fields is the record passed to the call and result the record   *)
(* returned.                                                                *)

\* the columns format_for_database may write
WrittenColumns == {FieldMapping[i][2] : i \in DOMAIN FieldMapping}
                      \cup {"MGRS", "extraction_metadata"}

StructuredOf(data) == Get(data, "structured_fields", <<>>)

\* column c has the same value, or the same absence, in records a and b
SameColumn(c, a, b) ==
    /\ c \in DOMAIN a <=> c \in DOMAIN b
    /\ c \in DOMAIN a => a[c] = b[c]

\* sub occurs in s between two positions
OccursIn(sub, s) ==
    \E i \in 1..(Len(s) + 1) : \E j \in (i - 1)..Len(s) : SubSeq(s, i, j) = sub

\* C5, as claimed: MGRS is the original value when no location_mgrs was
\* extracted, the extracted value when the original is absent or empty, and
\* 'original|new' whenever both are non-empty and differ.
C5_MgrsOutcome_Claimed ==
    result # None =>
        LET s == StructuredOf(extracted_data[1])
            old == Get(original_fields, "MGRS", <<>>)
        IN IF "location_mgrs" \notin DOMAIN s
           THEN SameColumn("MGRS", result[1], original_fields)
           ELSE LET new == s["location_mgrs"]
                IN /\ old = <<>> => result[1]["MGRS"] = new
                   /\ (old # <<>> /\ new # <<>> /\ new # old)
                         => result[1]["MGRS"] = old \o <<"|">> \o new

\* C5, amended: MGRS is the original value when no location_mgrs was
\* extracted, the extracted value when the original is absent or empty, the
\* original value when it is non-empty and the extracted value occurs in it
\* as a substring, and 'original|new' in every other case.
C5_MgrsOutcome ==
    result # None =>
        LET s == StructuredOf(extracted_data[1])
            old == Get(original_fields, "MGRS", <<>>)
        IN IF "location_mgrs" \notin DOMAIN s
           THEN SameColumn("MGRS", result[1], original_fields)
           ELSE LET new == s["location_mgrs"]
                IN /\ old = <<>> => result[1]["MGRS"] = new
                   /\ (old # <<>> /\ OccursIn(new, old)) => result[1]["MGRS"] = old
                   /\ (old # <<>> /\ ~OccursIn(new, old))
                         => result[1]["MGRS"] = old \o <<"|">> \o new

\* a coarser grid that is a proper substring of the original leaves MGRS as
\* it was
C5_Witness ==
    /\ result # None
    /\ "MGRS" \in DOMAIN original_fields
    /\ original_fields["MGRS"] = sMgrsBaghdad
    /\ "location_mgrs" \in DOMAIN StructuredOf(extracted_data[1])
    /\ StructuredOf(extracted_data[1])["location_mgrs"] = sMgrsCoarse
    /\ result[1]["MGRS"] = sMgrsBaghdad

\* the pipe-separated tokens of an MGRS value
MgrsTokens(record) == Split(Get(record, "MGRS", <<>>), "|")

\* C6: feeding the record returned back in with the same extraction leaves
\* MGRS unchanged, and after any sequence of calls no pipe-separated token
\* occurs twice in MGRS.
C6_RemergeIdempotence ==
    result # None =>
        /\ repeated => SameColumn("MGRS", result[1], original_fields)
        /\ NoDuplicates(MgrsTokens(result[1]))

\* '38SMB4484536781' merged with '42SXD8914734521' a second time
C6_Witness ==
    /\ result # None
    /\ repeated
    /\ calls = 2
    /\ "location_mgrs" \in DOMAIN StructuredOf(extracted_data[1])
    /\ StructuredOf(extracted_data[1])["location_mgrs"] = sMgrsKabul
    /\ result[1]["MGRS"] = sMgrsBaghdad \o <<"|">> \o sMgrsKabul

\* C9: every column other than the six mapped ones, MGRS and
\* extraction_metadata is as in original_fields; a mapped column is
\* overwritten with its structured field when that field is present and
\* non-empty, and is as in original_fields otherwise; extraction_metadata is
\* always rewritten from the extraction.
C9_OverlayAndFrame ==
    result # None =>
        LET s == StructuredOf(extracted_data[1])
            r == result[1]
        IN /\ \A c \in (DOMAIN r \cup DOMAIN original_fields) \ WrittenColumns :
                 SameColumn(c, r, original_fields)
           /\ \A i \in DOMAIN FieldMapping :
                 LET f == FieldMapping[i][1]
                     c == FieldMapping[i][2]
                 IN IF f \in DOMAIN s /\ s[f] # <<>>
                    THEN /\ c \in DOMAIN r
                         /\ r[c] = IF f = "key_themes" THEN JoinLabels(s[f]) ELSE s[f]
                    ELSE SameColumn(c, r, original_fields)
           /\ "extraction_metadata" \in DOMAIN r
           /\ r["extraction_metadata"].json.document_type = extracted_data[1].document_type
           /\ r["extraction_metadata"].json.confidence_scores
                 = extracted_data[1].confidence_scores
           /\ r["extraction_metadata"].json.entities = s["entities"]
           /\ r["extraction_metadata"].json.extraction_time
                 = extracted_data[1].extraction_metadata.extraction_time

\* an empty key_themes list leaves topics as it was, a classification
\* replaces a column the record did not have, and the metadata of an earlier
\* extraction is replaced
C9_Witness ==
    /\ result # None
    /\ calls = 1
    /\ StructuredOf(extracted_data[1])["key_themes"] = <<>>
    /\ "topics" \in DOMAIN original_fields
    /\ result[1]["topics"] = sTopics
    /\ "highest_classification" \notin DOMAIN original_fields
    /\ "classification" \in DOMAIN StructuredOf(extracted_data[1])
    /\ result[1]["highest_classification"] = sSecret
    /\ "extraction_metadata" \in DOMAIN original_fields
    /\ result[1]["extraction_metadata"] # original_fields["extraction_metadata"]

----------------------------------------------------------------------------
(* The properties of parse_datetime.                                        *)

sAmbiguous ==  \* 03/04/2023
    <<"0", "3", "/", "0", "4", "/", "2", "0", "2", "3">>
sDayFirst ==  \* 15/01/2023
    <<"1", "5", "/", "0", "1", "/", "2", "0", "2", "3">>
sJanuary15 ==  \* 2023-01-15
    <<"2", "0", "2", "3", "-", "0", "1", "-", "1", "5">>

\* C10: parse_datetime returns a string for every input and is idempotent;
\* '03/04/2023' is read month-first, '15/01/2023' day-first, and a string
\* that no format parses is returned trimmed.
C10_ParseDatetime ==
    /\ parsed # None =>
          /\ parsed[1] # ValueError
          /\ date_str = sAmbiguous => parsed[1] = sIsoDate
          /\ date_str = sDayFirst => parsed[1] = sJanuary15
          /\ date_str = sJanuary15 => parsed[1] = sJanuary15
          /\ Strip(date_str) = NotADate => parsed[1] = NotADate
          /\ (\A k \in DOMAIN DateFormats : TryFormat(Strip(date_str), k) = ValueError)
                => parsed[1] = Strip(date_str)
    /\ reparsed # None => reparsed = parsed

\* the ambiguous '03/04/2023' was normalised month-first and normalised again
C10_Witness ==
    /\ date_str = sAmbiguous
    /\ parsed = Some(sIsoDate)
    /\ reparsed = Some(sIsoDate)

----------------------------------------------------------------------------
(* Texts that match nothing.                                                *)

\* no pattern of any field type and no entity pattern matches on the document
MatchesNoPattern(doc) ==
    /\ \A t \in Range(FieldTypes) : \A p \in 1..NumPatterns(t) : \A i \in DOMAIN doc :
          LineFindall(t, p, doc[i]) = <<>>
    /\ \A c \in Range(EntityTypes) : \A p \in 1..NumEntityPatterns(c) :
          \A i \in DOMAIN doc : EntityLineFindall(c, p, doc[i]) = <<>>

\* no keyword of the classifier and no keyword of a theme is in the
\* lower-cased text
MatchesNoKeyword(doc) ==
    /\ ~HasAny({wIntelligence, wIntel, wAssessment, wAnalysis, wSummary, wSitrep,
                wSituation, wPatrol, wMission, wOperation, wIncident, wEvent,
                wContact, wBrief, wBriefing}, doc)
    /\ \A th \in Range(ThemeNames) : ~Qualifies(th, doc)

\* C11: on the empty text, and on any text that matches no pattern and no
\* keyword, the result has document_type 'general_document', an empty
\* raw_extractions, an empty confidence_scores with avg_confidence 0.0, and
\* a structured_fields with only key_themes == [] and entities with every
\* category empty.
C11_EmptyInputSafety ==
    (extracted # None /\ (text = <<>> \/ (MatchesNoPattern(text) /\ MatchesNoKeyword(text)))) =>
        LET e == extracted[1]
        IN /\ e.document_type = "general_document"
           /\ DOMAIN e.raw_extractions = {}
           /\ DOMAIN e.confidence_scores = {}
           /\ e.extraction_metadata.avg_confidence[1] = 0
           /\ e.extraction_metadata.avg_confidence[2] # 0
           /\ DOMAIN e.structured_fields = {"key_themes", "entities"}
           /\ e.structured_fields["key_themes"] = <<>>
           /\ DOMAIN e.structured_fields["entities"] = Range(EntityTypes)
           /\ \A c \in Range(EntityTypes) : e.structured_fields["entities"][c] = <<>>
           /\ e.extraction_metadata.fields_found = 2

\* a text that is not empty and matches nothing was extracted
C11_Witness ==
    /\ extracted # None
    /\ text = <<LnNothing, LnBlank>>
    /\ extracted[1].document_type = "general_document"
    /\ extracted[1].extraction_metadata.text_length = 17

----------------------------------------------------------------------------
(* The order of the candidates.                                             *)

\* the matches of field type t on the document, each named by its pattern,
\* its line and its rank among the matches of the pattern on the line
Occurrences(t, doc) ==
    UNION {UNION {{<<p, i, k>> : k \in DOMAIN LineFindall(t, p, doc[i])} :
                     i \in DOMAIN doc} :
              p \in 1..NumPatterns(t)}

\* the cleaned text of a match
CleanedAt(t, doc, o) == CleanMatch(t, LineFindall(t, o[1], doc[o[2]])[o[3]])

\* match a comes before match b: an earlier pattern, or the same pattern and
\* an earlier place in the document
Before(a, b) ==
    \/ a[1] < b[1]
    \/ a[1] = b[1] /\ a[2] < b[2]
    \/ a[1] = b[1] /\ a[2] = b[2] /\ a[3] < b[3]

\* the first match whose cleaned text is x
FirstOccurrence(t, doc, x) ==
    CHOOSE o \in Occurrences(t, doc) :
        /\ CleanedAt(t, doc, o) = x
        /\ \A o2 \in Occurrences(t, doc) :
              CleanedAt(t, doc, o2) = x => (o2 = o \/ Before(o, o2))

\* C12: raw_extractions[t] lists the cleaned, non-empty texts of the matches
\* of t, each once, in the order of their first match, the matches being
\* taken pattern by pattern in registry order and, within a pattern, in
\* document order; a type without a match has no list.
C12_PriorityFirstOrder ==
    extracted # None =>
        \A t \in Range(FieldTypes) :
            LET raw == extracted[1].raw_extractions
                occ == Occurrences(t, text)
            IN IF occ = {} THEN t \notin DOMAIN raw
               ELSE /\ t \in DOMAIN raw
                    /\ Range(raw[t]) = {CleanedAt(t, text, o) : o \in occ} \ {<<>>}
                    /\ NoDuplicates(raw[t])
                    /\ \A a, b \in DOMAIN raw[t] :
                          a < b => Before(FirstOccurrence(t, text, raw[t][a]),
                                          FirstOccurrence(t, text, raw[t][b]))

\* the candidate of an earlier pattern found on the second line precedes the
\* candidate of a later pattern found on the first line, and a value matched
\* by two patterns is listed once
C12_Witness ==
    /\ extracted # None
    /\ text = <<LnSeen, LnDate>>
    /\ extracted[1].raw_extractions["date_time"] = <<sJanuary15, sIsoDate>>
    /\ FirstOccurrence("date_time", text, sJanuary15)[2] = 2
    /\ FirstOccurrence("date_time", text, sIsoDate)[2] = 1
    /\ Cardinality(Occurrences("date_time", text)) = 3

====
